---- MODULE Spec2Model ----
(***************************************************************************)
(* Model of gestao_efetivo_app.py: the personnel / leave register of a     *)
(* Streamlit application.  Every browser session keeps its own AppState in *)
(* st.session_state, loaded once from dados_efetivo.json; every successful *)
(* form submission appends to the session's AppState and rewrites the      *)
(* whole JSON file.                                                        *)
(*                                                                         *)
(* Python str values that the code compares or builds (identifiers, ISO    *)
(* dates) are sequences of character codes; free text that is only stored  *)
(* and tested for emptiness is a TLA+ string.                              *)
(***************************************************************************)
EXTENDS Integers, Sequences, FiniteSets

VARIABLES mem, disk, today, last, hist

vars == <<mem, disk, today, last, hist>>

(***************************************************************************)
(* Bounds of the model.                                                    *)
(***************************************************************************)
MaxPersonnel == 2
MaxLeaves == 2
MaxSaldo == 2
MaxPersonnelBal == 1
MaxLeavesBal == 1
MaxPersonnelHist == 2
MaxLeavesHist == 2
MaxPersonnelDash == 2
MaxLeavesDash == 2
MaxPersonnelMulti == 2

(***************************************************************************)
(* Character codes of the str values the code builds.                      *)
(***************************************************************************)
Chr0 == 48
ChrDash == 45
ChrT == 84
PrefixP == <<80>>
PrefixL == <<76>>

(***************************************************************************)
(* Enumerations (class Rank, UserRole, LeaveType).                         *)
(***************************************************************************)
Rank == {"CEL", "TC", "MAJ", "CAP", "1º TEN", "2º TEN", "ST", "1º SGT",
         "2º SGT", "3º SGT", "CB", "SD", "F.CIVIL"}

UserRole == {"ADMIN", "MANAGER", "USER"}

FERIAS == "FÉRIAS"

ABONO == "ABONO"

LeaveType == {FERIAS, ABONO, "LTSP", "RESTRIÇÃO", "LICENÇA ESPECIAL", "LTIP",
              "PRONTO EMPREGO", "EXTRA", "REPRESENTAÇÃO", "DISPENSA RECOMPENSA"}

(***************************************************************************)
(* Python built-ins used by the code.                                      *)
(***************************************************************************)
max(a, b) == IF a >= b THEN a ELSE b

\* str(n) for n >= 0: the decimal digits of n
RECURSIVE Decimal(_)
Decimal(n) == IF n < 10 THEN <<Chr0 + n>>
              ELSE Decimal(n \div 10) \o <<Chr0 + (n % 10)>>

\* "%0wd" % n
RECURSIVE ZeroPad(_, _)
ZeroPad(n, w) == IF w <= 1 THEN Decimal(n)
                 ELSE IF Len(Decimal(n)) >= w THEN Decimal(n)
                 ELSE <<Chr0>> \o ZeroPad(n, w - 1)

\* str.__lt__ : lexicographic order on code points
RECURSIVE StrLT(_, _)
StrLT(a, b) == IF b = <<>> THEN FALSE
               ELSE IF a = <<>> THEN TRUE
               ELSE IF Head(a) # Head(b) THEN Head(a) < Head(b)
               ELSE StrLT(Tail(a), Tail(b))

StrLE(a, b) == a = b \/ StrLT(a, b)

(***************************************************************************)
(* datetime.date: a (year, month, day) triple.                             *)
(***************************************************************************)
IsLeap(y) == y % 4 = 0 /\ (y % 100 # 0 \/ y % 400 = 0)

DaysInMonth(y, m) == IF m = 2 THEN (IF IsLeap(y) THEN 29 ELSE 28)
                     ELSE IF m \in {4, 6, 9, 11} THEN 30 ELSE 31

RECURSIVE DaysBeforeMonth(_, _)
DaysBeforeMonth(y, m) == IF m <= 1 THEN 0
                         ELSE DaysBeforeMonth(y, m - 1) + DaysInMonth(y, m - 1)

\* date.toordinal()
toordinal(d) == LET y == d.year - 1
                IN  y * 365 + (y \div 4) - (y \div 100) + (y \div 400)
                    + DaysBeforeMonth(d.year, d.month) + d.day

\* date.__lt__ : order on (year, month, day)
DateLT(a, b) == \/ a.year < b.year
                \/ a.year = b.year /\ a.month < b.month
                \/ a.year = b.year /\ a.month = b.month /\ a.day < b.day

\* (end - start).days
DaysBetween(end, start) == toordinal(end) - toordinal(start)

\* date.isoformat() : "YYYY-MM-DD"
isoformat(d) == ZeroPad(d.year, 4) \o <<ChrDash>> \o ZeroPad(d.month, 2)
                \o <<ChrDash>> \o ZeroPad(d.day, 2)

\* datetime.now().isoformat(): the date part followed by "T" and the time of
\* day; the time of day is not represented
NowIso(d) == isoformat(d) \o <<ChrT>>

NoDate == [year |-> 0, month |-> 0, day |-> 0]

(***************************************************************************)
(* Persistence: save_state / load_state.  asdict() turns a dataclass into  *)
(* a dict, written as a JSON object: a sequence of <<key, value>> members  *)
(* in field order.  load_state rebuilds each dataclass from its members by *)
(* keyword.                                                                *)
(***************************************************************************)
Member(obj, key) == obj[CHOOSE i \in 1..Len(obj) : obj[i][1] = key][2]

asdictPersonnel(p) ==
    << <<"id", p.id>>, <<"ant", p.ant>>, <<"grad", p.grad>>,
       <<"quadro", p.quadro>>, <<"nome", p.nome>>, <<"matr", p.matr>>,
       <<"unid", p.unid>>, <<"secao", p.secao>>, <<"situacao", p.situacao>>,
       <<"esc", p.esc>>, <<"saldoFerias", p.saldoFerias>>,
       <<"saldoAbono", p.saldoAbono>>, <<"role", p.role>> >>

asdictLeave(l) ==
    << <<"id", l.id>>, <<"personnel_id", l.personnel_id>>, <<"type", l.type>>,
       <<"startDate", l.startDate>>, <<"endDate", l.endDate>>,
       <<"description", l.description>>, <<"createdAt", l.createdAt>> >>

\* Personnel(**p)
PersonnelFromDict(p) ==
    [id |-> Member(p, "id"), ant |-> Member(p, "ant"),
     grad |-> Member(p, "grad"), quadro |-> Member(p, "quadro"),
     nome |-> Member(p, "nome"), matr |-> Member(p, "matr"),
     unid |-> Member(p, "unid"), secao |-> Member(p, "secao"),
     situacao |-> Member(p, "situacao"), esc |-> Member(p, "esc"),
     saldoFerias |-> Member(p, "saldoFerias"),
     saldoAbono |-> Member(p, "saldoAbono"), role |-> Member(p, "role")]

\* LeaveRecord(**l)
LeaveFromDict(l) ==
    [id |-> Member(l, "id"), personnel_id |-> Member(l, "personnel_id"),
     type |-> Member(l, "type"), startDate |-> Member(l, "startDate"),
     endDate |-> Member(l, "endDate"),
     description |-> Member(l, "description"),
     createdAt |-> Member(l, "createdAt")]

AppState(personnel, leaves) == [personnel |-> personnel, leaves |-> leaves]

default_state == AppState(<<>>, <<>>)

\* DATA_FILE before the first save_state: it does not exist
NoFile == [exists |-> FALSE, personnel |-> <<>>, leaves |-> <<>>]

\* a load_state that never reads the file
load_state_fresh(file) == default_state

load_state(file) ==
    IF ~file.exists THEN default_state
    ELSE AppState([i \in 1..Len(file.personnel) |-> PersonnelFromDict(file.personnel[i])],
                  [i \in 1..Len(file.leaves) |-> LeaveFromDict(file.leaves[i])])

\* the document save_state(state) leaves in DATA_FILE
save_state(state) ==
    [exists |-> TRUE,
     personnel |-> [i \in 1..Len(state.personnel) |-> asdictPersonnel(state.personnel[i])],
     leaves |-> [i \in 1..Len(state.leaves) |-> asdictLeave(state.leaves[i])]]

(***************************************************************************)
(* Helpers.                                                                *)
(***************************************************************************)
\* a generate_id that forgets the "+ 1"
generate_id_len(prefix, elements) == prefix \o Decimal(Len(elements))

generate_id(prefix, elements) == prefix \o Decimal(Len(elements) + 1)

\* index of the first Personnel with identifier pid, 0 for None
find_person_by_id(state, pid) ==
    IF \E i \in 1..Len(state.personnel) : state.personnel[i].id = pid
    THEN CHOOSE i \in 1..Len(state.personnel) :
            /\ state.personnel[i].id = pid
            /\ \A j \in 1..(i - 1) : state.personnel[j].id # pid
    ELSE 0

(***************************************************************************)
(* page_dashboard: the two metrics.                                        *)
(***************************************************************************)
\* em_ferias (lines 147-152) for hoje = date.today().isoformat()
em_ferias(state, hoje) ==
    Len(SelectSeq(state.leaves,
                  LAMBDA l : /\ l.type = FERIAS
                             /\ StrLE(l.startDate, hoje)
                             /\ StrLE(hoje, l.endDate)))

total(state) == Len(state.personnel)

(***************************************************************************)
(* page_personnel: the "novo_militar" form.                                *)
(***************************************************************************)
\* a check of the name alone
ValidPersonnel_nome(nome, matr) == nome # ""

\* if not nome or not matr: st.error(...)
ValidPersonnel(nome, matr) == nome # "" /\ matr # ""

\* the form's fields; the free-text fields keep the widgets' default values
NewPersonnel(state, f) ==
    [id |-> generate_id(PrefixP, state.personnel),
     ant |-> 1, grad |-> f.grad, quadro |-> "QOPM", nome |-> f.nome,
     matr |-> f.matr, unid |-> "DLF", secao |-> "SAD", situacao |-> "ATIVO",
     esc |-> "EXP", saldoFerias |-> f.saldo_ferias,
     saldoAbono |-> f.saldo_abono, role |-> f.role]

\* state.personnel.append(new); save_state(state)
submit_personnel(state, f) ==
    LET after == AppState(Append(state.personnel, NewPersonnel(state, f)),
                          state.leaves)
    IN  [state |-> after, file |-> save_state(after)]

(***************************************************************************)
(* page_leaves: the "novo_afastamento" form.                               *)
(***************************************************************************)
\* the selectbox label of a Personnel: f"{p.nome} ({p.grad} - {p.matr})"
Label(p) == <<p.nome, p.grad, p.matr>>

\* options = {label: p.id for p in state.personnel}: a later Personnel with
\* the same label replaces an earlier one; the identifiers that can be selected
Options(state) ==
    {state.personnel[i].id : i \in
        {i \in 1..Len(state.personnel) :
            \A j \in (i + 1)..Len(state.personnel) :
                Label(state.personnel[j]) # Label(state.personnel[i])}}

\* the comparison the wrong way round
ValidLeave_reversed(start, end) == ~DateLT(start, end)

\* if end < start: st.error(...)
ValidLeave(start, end) == ~DateLT(end, start)

\* a LeaveRecord whose personnel_id is given the record's own identifier
NewLeave_own_id(state, pid, tipo, start, end, now) ==
    [id |-> generate_id(PrefixL, state.leaves),
     personnel_id |-> generate_id(PrefixL, state.leaves), type |-> tipo,
     startDate |-> isoformat(start), endDate |-> isoformat(end),
     description |-> "", createdAt |-> NowIso(now)]

NewLeave(state, pid, tipo, start, end, now) ==
    [id |-> generate_id(PrefixL, state.leaves),
     personnel_id |-> pid, type |-> tipo, startDate |-> isoformat(start),
     endDate |-> isoformat(end), description |-> "",
     createdAt |-> NowIso(now)]

\* a deduction that is not clamped
Deduct_unclamped(saldo, days) == saldo - days

\* max(0, saldo - days)
Deduct(saldo, days) == max(0, saldo - days)

\* an ABONO deducted from the vacation balance
AdjustBalances_one_balance(state, i, tipo, start, end) ==
    LET days == DaysBetween(end, start) + 1
        person == state.personnel[i]
        p1 == IF tipo \in {FERIAS, ABONO}
              THEN [person EXCEPT !.saldoFerias = max(0, @ - days)]
              ELSE person
    IN  AppState([state.personnel EXCEPT ![i] = p1], state.leaves)

\* a deduction made on every Personnel
AdjustBalances_everyone(state, i, tipo, start, end) ==
    LET days == DaysBetween(end, start) + 1
        adjust(person) ==
            [person EXCEPT
                !.saldoFerias = IF tipo = FERIAS THEN max(0, @ - days) ELSE @,
                !.saldoAbono = IF tipo = ABONO THEN max(0, @ - days) ELSE @]
    IN  AppState([k \in 1..Len(state.personnel) |-> adjust(state.personnel[k])],
                 state.leaves)

\* lines 320-324: person is the object found by find_person_by_id
AdjustBalances(state, i, tipo, start, end) ==
    LET days == DaysBetween(end, start) + 1
        person == state.personnel[i]
        p1 == IF tipo = FERIAS
              THEN [person EXCEPT !.saldoFerias = Deduct(@, days)]
              ELSE person
        p2 == IF tipo = ABONO
              THEN [p1 EXCEPT !.saldoAbono = Deduct(@, days)]
              ELSE p1
    IN  AppState([state.personnel EXCEPT ![i] = p2], state.leaves)

\* a submit that saves before it adjusts the balances
submit_leave_save_first(state, pid, tipo, start, end, now) ==
    LET i == find_person_by_id(state, pid)
        appended == AppState(state.personnel,
                             Append(state.leaves,
                                    [id |-> generate_id(PrefixL, state.leaves),
                                     personnel_id |-> state.personnel[i].id,
                                     type |-> tipo,
                                     startDate |-> isoformat(start),
                                     endDate |-> isoformat(end),
                                     description |-> "",
                                     createdAt |-> NowIso(now)]))
        days == DaysBetween(end, start) + 1
        person == state.personnel[i]
        p1 == IF tipo = FERIAS
              THEN [person EXCEPT !.saldoFerias = max(0, @ - days)]
              ELSE person
        p2 == IF tipo = ABONO
              THEN [p1 EXCEPT !.saldoAbono = max(0, @ - days)]
              ELSE p1
    IN  [state |-> AppState([state.personnel EXCEPT ![i] = p2], appended.leaves),
         file |-> save_state(appended)]

\* lines 308-326
submit_leave(state, pid, tipo, start, end, now) ==
    LET i == find_person_by_id(state, pid)
        appended == AppState(state.personnel,
                             Append(state.leaves,
                                    NewLeave(state, state.personnel[i].id,
                                             tipo, start, end, now)))
        after == AdjustBalances(appended, i, tipo, start, end)
    IN  [state |-> after, file |-> save_state(after)]

(***************************************************************************)
(* State.                                                                  *)
(*   mem[s]   st.session_state of browser session s: whether it holds a    *)
(*            "state" entry, and that AppState                             *)
(*   disk     dados_efetivo.json                                           *)
(*   today    the calendar date of the system clock                        *)
(*   last     what the last script run was asked and what it showed        *)
(*   hist[s]  the file session s loaded, and how many Personnel it has     *)
(*            registered since                                             *)
(***************************************************************************)
Sessions == {1, 2}

NoState == [loaded |-> FALSE, state |-> default_state]

NoRun == [op |-> "none", s |-> 0, ok |-> FALSE, nome |-> "", matr |-> "",
          tipo |-> "", start |-> NoDate, end |-> NoDate,
          total |-> 0, em_ferias |-> 0, hoje |-> <<>>]

NoHist == [base |-> NoFile, regs |-> 0]

\* A specification draws its inputs from a record U: the texts typed as name
\* (U.nomeIn) and registration number (U.matrIn), the ranks (U.grads), roles
\* (U.roles), pairs of balances (U.saldos), leave types (U.types) and dates
\* (U.dates) chosen, the dates the clock may show at the start (U.todayIn),
\* and the sizes the collections grow to (U.maxP, U.maxL)
InitU(U) ==
    /\ mem = [s \in Sessions |-> NoState]
    /\ disk = NoFile
    /\ today \in U.todayIn
    /\ last = NoRun
    /\ hist = [s \in Sessions |-> NoHist]

\* the system clock passes midnight
Tick(U) ==
    /\ \E d \in U.dates : DateLT(today, d) /\ today' = d
    /\ UNCHANGED <<mem, disk, last, hist>>

\* main(), lines 380-384: the AppState of the session, loaded on its first run
SessionState(s) == IF mem[s].loaded THEN mem[s].state ELSE load_state(disk)

\* A run of main() showing the Dashboard page (the first run of a session
\* shows it: it is the radio's default)
Dashboard(s) ==
    LET state == SessionState(s)
    IN  /\ mem' = [mem EXCEPT ![s] = [loaded |-> TRUE, state |-> state]]
        /\ hist' = IF mem[s].loaded THEN hist
                   ELSE [hist EXCEPT ![s] = [base |-> disk, regs |-> 0]]
        /\ last' = [NoRun EXCEPT !.op = "dashboard", !.s = s, !.ok = TRUE,
                                 !.total = total(state),
                                 !.em_ferias = em_ferias(state, isoformat(today)),
                                 !.hoje = isoformat(today)]
        /\ UNCHANGED <<disk, today>>

\* A run of main() on the "Efetivo" page with the form submitted
PagePersonnel(s, U) ==
    /\ mem[s].loaded
    /\ Len(mem[s].state.personnel) < U.maxP
    /\ \E nome \in U.nomeIn, matr \in U.matrIn, grad \in U.grads,
          role \in U.roles, saldo \in U.saldos :
          LET f == [nome |-> nome, matr |-> matr, grad |-> grad, role |-> role,
                    saldo_ferias |-> saldo[1], saldo_abono |-> saldo[2]]
              run == [NoRun EXCEPT !.op = "register", !.s = s,
                                   !.nome = nome, !.matr = matr]
          IN  IF ~ValidPersonnel(nome, matr)
              THEN /\ last' = run
                   /\ UNCHANGED <<mem, disk, hist>>
              ELSE LET r == submit_personnel(mem[s].state, f)
                   IN  /\ mem' = [mem EXCEPT ![s].state = r.state]
                       /\ disk' = r.file
                       /\ hist' = [hist EXCEPT ![s].regs = @ + 1]
                       /\ last' = [run EXCEPT !.ok = TRUE]
    /\ UNCHANGED today

\* A run of main() on the "Afastamentos" page with the form submitted, or
\* with no Personnel to select
PageLeaves(s, U) ==
    /\ mem[s].loaded
    /\ Len(mem[s].state.leaves) < U.maxL
    /\ LET state == mem[s].state
       IN  IF state.personnel = <<>>
           THEN /\ last' = [NoRun EXCEPT !.op = "leaves", !.s = s]
                /\ UNCHANGED <<mem, disk, hist>>
           ELSE \E pid \in Options(state), tipo \in U.types,
                   start \in U.dates, end \in U.dates :
                   LET run == [NoRun EXCEPT !.op = "logLeave", !.s = s,
                                            !.tipo = tipo, !.start = start,
                                            !.end = end]
                   IN  IF ~ValidLeave(start, end)
                       THEN /\ last' = run
                            /\ UNCHANGED <<mem, disk, hist>>
                       ELSE LET r == submit_leave(state, pid, tipo, start,
                                                  end, today)
                            IN  /\ mem' = [mem EXCEPT ![s].state = r.state]
                                /\ disk' = r.file
                                /\ last' = [run EXCEPT !.ok = TRUE]
                                /\ UNCHANGED hist
    /\ UNCHANGED today

\* The browser session ends: its st.session_state is discarded
EndSession(s) ==
    /\ mem[s].loaded
    /\ mem' = [mem EXCEPT ![s] = NoState]
    /\ hist' = [hist EXCEPT ![s] = NoHist]
    /\ last' = [NoRun EXCEPT !.op = "end", !.s = s]
    /\ UNCHANGED <<disk, today>>

(***************************************************************************)
(* Inputs.  The dates straddle a year's end, so that a day count and an    *)
(* ISO comparison cross it; the wider set adds a day 60 days on, past the  *)
(* default vacation balance.  The balances entered are the widgets'        *)
(* default values, or every split of MaxSaldo days between the two.        *)
(***************************************************************************)
NewYearsEve == [year |-> 2023, month |-> 12, day |-> 31]

NewYearsDay == [year |-> 2024, month |-> 1, day |-> 1]

LeapDay == [year |-> 2024, month |-> 2, day |-> 29]

Dates == {NewYearsEve, NewYearsDay}

DatesWide == {NewYearsEve, NewYearsDay, LeapDay}

DefaultSaldoFerias == 30

DefaultSaldoAbono == 5

DefaultSaldos == {<<DefaultSaldoFerias, DefaultSaldoAbono>>}

SmallSaldos == {<<f, MaxSaldo - f>> : f \in 0..MaxSaldo}

(***************************************************************************)
(* Spec: one browser session; registrations, valid and invalid, and        *)
(* vacation leaves.                                                        *)
(***************************************************************************)
USingle == [nomeIn |-> {"", "ANA", "BIA"}, matrIn |-> {"", "M1"},
            grads |-> {"SD"}, roles |-> {"USER"}, saldos |-> DefaultSaldos,
            types |-> {FERIAS}, dates |-> DatesWide, todayIn |-> {NewYearsDay},
            maxP |-> MaxPersonnel, maxL |-> MaxLeaves]

Init == InitU(USingle)

Next ==
    \/ Dashboard(1)
    \/ PagePersonnel(1, USingle)
    \/ PageLeaves(1, USingle)

Spec == Init /\ [][Next]_vars

(***************************************************************************)
(* SpecBalance: one browser session; every leave type, against small       *)
(* balances.                                                               *)
(***************************************************************************)
UBalance == [nomeIn |-> {"ANA"}, matrIn |-> {"M1"},
             grads |-> {"SD"}, roles |-> {"USER"}, saldos |-> SmallSaldos,
             types |-> LeaveType, dates |-> Dates,
             todayIn |-> {NewYearsDay},
             maxP |-> MaxPersonnelBal, maxL |-> MaxLeavesBal]

InitBalance == InitU(UBalance)

NextBalance ==
    \/ Dashboard(1)
    \/ PagePersonnel(1, UBalance)
    \/ PageLeaves(1, UBalance)

SpecBalance == InitBalance /\ [][NextBalance]_vars

(***************************************************************************)
(* SpecHistory: one browser session; several Personnel and several leaves  *)
(* of the two balance-bearing types and one other.                         *)
(***************************************************************************)
UHistory == [nomeIn |-> {"ANA", "BIA"}, matrIn |-> {"M1"},
             grads |-> {"SD"}, roles |-> {"USER"}, saldos |-> DefaultSaldos,
             types |-> {FERIAS, ABONO, "LTSP"}, dates |-> {NewYearsDay},
             todayIn |-> {NewYearsEve},
             maxP |-> MaxPersonnelHist, maxL |-> MaxLeavesHist]

InitHistory == InitU(UHistory)

NextHistory ==
    \/ Dashboard(1)
    \/ PagePersonnel(1, UHistory)
    \/ PageLeaves(1, UHistory)

SpecHistory == InitHistory /\ [][NextHistory]_vars

(***************************************************************************)
(* SpecDashboard: one browser session, the clock running.                  *)
(***************************************************************************)
UDashboard == [nomeIn |-> {"ANA", "BIA"}, matrIn |-> {"M1"},
               grads |-> {"SD"}, roles |-> {"USER"}, saldos |-> DefaultSaldos,
               types |-> {FERIAS, "RESTRIÇÃO"}, dates |-> Dates,
               todayIn |-> Dates,
               maxP |-> MaxPersonnelDash, maxL |-> MaxLeavesDash]

InitDashboard == InitU(UDashboard)

NextDashboard ==
    \/ Tick(UDashboard)
    \/ Dashboard(1)
    \/ PagePersonnel(1, UDashboard)
    \/ PageLeaves(1, UDashboard)

SpecDashboard == InitDashboard /\ [][NextDashboard]_vars

(***************************************************************************)
(* SpecMulti: two browser sessions registering Personnel in the same       *)
(* dados_efetivo.json, each of which may end and be opened again.          *)
(***************************************************************************)
UMulti(s) == [nomeIn |-> IF s = 1 THEN {"ANA"} ELSE {"BIA"},
              matrIn |-> {"M1"}, grads |-> {"SD"}, roles |-> {"USER"},
              saldos |-> DefaultSaldos, types |-> {FERIAS},
              dates |-> {NewYearsEve}, todayIn |-> {NewYearsEve},
              maxP |-> MaxPersonnelMulti, maxL |-> 0]

InitMulti == InitU(UMulti(1))

NextMulti ==
    \/ \E s \in Sessions : Dashboard(s)
    \/ \E s \in Sessions : PagePersonnel(s, UMulti(s))
    \/ \E s \in Sessions : EndSession(s)

SpecMulti == InitMulti /\ [][NextMulti]_vars

(***************************************************************************)
(* Properties.                                                             *)
(***************************************************************************)
PersonnelOf(s) == mem[s].state.personnel

LeavesOf(s) == mem[s].state.leaves

\* the inclusive day count of the dates given to the last run
DaysOfRun(run) == (toordinal(run.end) - toordinal(run.start)) + 1

Clamp(n) == IF n < 0 THEN 0 ELSE n

\* C1: in one session started from an empty state, the n-th registered
\* Personnel has the identifier "P" followed by n in decimal, and no two
\* Personnel of the collection share an identifier.
C1_IdentifierIsRegistrationOrder ==
    /\ \A n \in 1..Len(PersonnelOf(1)) :
          PersonnelOf(1)[n].id = PrefixP \o Decimal(n)
    /\ \A i, j \in 1..Len(PersonnelOf(1)) :
          i # j => PersonnelOf(1)[i].id # PersonnelOf(1)[j].id

\* C1 witness: a second Personnel registered after a leave was logged
C1_Witness ==
    /\ Len(PersonnelOf(1)) = 2
    /\ Len(LeavesOf(1)) >= 1
    /\ last.op = "register" /\ last.ok

\* C2: a successful logLeave of days = (end - start) + 1 days leaves the
\* owner's vacation balance at max(0, before - days) and the special-leave
\* balance unchanged when the type is FERIAS, the special-leave balance at
\* max(0, before - days) and the vacation balance unchanged when the type is
\* ABONO, and both balances unchanged for each of the other eight types.
C2_BalanceRule ==
    [][(/\ last'.op = "logLeave" /\ last'.ok
        /\ Len(LeavesOf(1)') = Len(LeavesOf(1)) + 1)
       => LET new == LeavesOf(1)'[Len(LeavesOf(1)')]
              days == DaysOfRun(last')
          IN  \A i \in 1..Len(PersonnelOf(1)) :
                 PersonnelOf(1)[i].id = new.personnel_id =>
                    LET before == PersonnelOf(1)[i]
                        after == PersonnelOf(1)'[i]
                    IN  /\ new.type = FERIAS =>
                           /\ after.saldoFerias = Clamp(before.saldoFerias - days)
                           /\ after.saldoAbono = before.saldoAbono
                        /\ new.type = ABONO =>
                           /\ after.saldoAbono = Clamp(before.saldoAbono - days)
                           /\ after.saldoFerias = before.saldoFerias
                        /\ new.type \in LeaveType \ {FERIAS, ABONO} =>
                           /\ after.saldoFerias = before.saldoFerias
                           /\ after.saldoAbono = before.saldoAbono]_vars

\* C2 witness: a two-day ABONO logged against a special-leave balance of one
\* day, which is clamped to 0, the vacation balance staying at one day
C2_Witness ==
    /\ last.op = "logLeave" /\ last.ok /\ last.tipo = ABONO
    /\ DaysOfRun(last) = 2
    /\ Len(PersonnelOf(1)) = 1 /\ Len(LeavesOf(1)) = 1
    /\ PersonnelOf(1)[1].saldoAbono = 0
    /\ PersonnelOf(1)[1].saldoFerias = 1

\* C3: in every reachable state both balances of every Personnel are >= 0.
C3_BalancesNeverNegative ==
    \A i \in 1..Len(PersonnelOf(1)) :
        /\ PersonnelOf(1)[i].saldoFerias >= 0
        /\ PersonnelOf(1)[i].saldoAbono >= 0

\* C3 witness: a two-day FERIAS logged against a vacation balance of one day
C3_Witness ==
    /\ last.op = "logLeave" /\ last.ok /\ last.tipo = FERIAS
    /\ DaysOfRun(last) = 2
    /\ Len(PersonnelOf(1)) = 1 /\ Len(LeavesOf(1)) = 1
    /\ PersonnelOf(1)[1].saldoFerias = 0
    /\ PersonnelOf(1)[1].saldoAbono = 1

\* C4: a logLeave with end < start fails, and changes neither the leave
\* collection, nor the personnel collection, nor the persisted snapshot.
C4_InvalidRangeRejected ==
    [][(last'.op = "logLeave" /\ DateLT(last'.end, last'.start))
       => (~last'.ok /\ mem' = mem /\ disk' = disk)]_vars

\* C4 witness: an inverted range refused with a leave already on file
C4_Witness ==
    /\ last.op = "logLeave" /\ ~last.ok /\ DateLT(last.end, last.start)
    /\ Len(LeavesOf(1)) >= 1
    /\ disk.exists

\* C5: the personnel_id of every LeaveRecord of the leave collection is the
\* identifier of some Personnel of the personnel collection.
C5_LeaveOwnerExists ==
    \A k \in 1..Len(LeavesOf(1)) :
        \E i \in 1..Len(PersonnelOf(1)) :
            PersonnelOf(1)[i].id = LeavesOf(1)[k].personnel_id

\* C5 witness: two Personnel with the same selectbox label, and a leave
\* logged for each of them
C5_Witness ==
    /\ Len(PersonnelOf(1)) = 2
    /\ Label(PersonnelOf(1)[1]) = Label(PersonnelOf(1)[2])
    /\ Len(LeavesOf(1)) = 2
    /\ LeavesOf(1)[1].personnel_id = PersonnelOf(1)[1].id
    /\ LeavesOf(1)[2].personnel_id = PersonnelOf(1)[2].id

\* the Personnel with a FERIAS record that spans the date hoje
OnVacation(s, hoje) ==
    {i \in 1..Len(PersonnelOf(s)) :
        \E k \in 1..Len(LeavesOf(s)) :
            /\ LeavesOf(s)[k].personnel_id = PersonnelOf(s)[i].id
            /\ LeavesOf(s)[k].type = FERIAS
            /\ StrLE(LeavesOf(s)[k].startDate, hoje)
            /\ StrLE(hoje, LeavesOf(s)[k].endDate)}

\* C6: the dashboard's "on leave today" metric is the number of Personnel
\* with at least one FERIAS record spanning today; records of other types
\* are not counted and a Personnel with several such records counts once.
C6_OnLeaveCountsPersonnel ==
    last.op = "dashboard" =>
        last.em_ferias = Cardinality(OnVacation(last.s, last.hoje))

\* C7: with one session, after a successful registerPersonnel or logLeave
\* the persisted snapshot holds the in-memory AppState: loading it gives the
\* same Personnel and LeaveRecords, field by field, in the same order.
C7_SnapshotIsState ==
    (last.op \in {"register", "logLeave"} /\ last.ok) =>
        /\ disk.exists
        /\ load_state(disk) = mem[1].state
        /\ disk = save_state(mem[1].state)

\* C7 witness: a one-day FERIAS logged against a vacation balance of two days
C7_Witness ==
    /\ last.op = "logLeave" /\ last.ok /\ last.tipo = FERIAS
    /\ DaysOfRun(last) = 1
    /\ Len(PersonnelOf(1)) = 1 /\ Len(LeavesOf(1)) = 1
    /\ PersonnelOf(1)[1].saldoFerias = 1
    /\ PersonnelOf(1)[1].saldoAbono = 0

\* C8: a registerPersonnel with an empty name or an empty registration
\* number is rejected: nothing is appended and the snapshot is not rewritten;
\* no identifier is consumed, the next valid registration receiving "P"
\* followed by the personnel count + 1.
C8_EmptyFieldsRejected ==
    [][/\ (last'.op = "register" /\ (last'.nome = "" \/ last'.matr = ""))
          => (~last'.ok /\ mem' = mem /\ disk' = disk)
       /\ (/\ last'.op = "register" /\ last'.ok
           /\ Len(PersonnelOf(1)') = Len(PersonnelOf(1)) + 1)
          => PersonnelOf(1)'[Len(PersonnelOf(1)')].id
                = PrefixP \o Decimal(Len(PersonnelOf(1)) + 1)]_vars

\* C8 witness: a registration without a registration number refused with a
\* Personnel already on file
C8_Witness ==
    /\ last.op = "register" /\ ~last.ok /\ last.nome # "" /\ last.matr = ""
    /\ Len(PersonnelOf(1)) >= 1
    /\ disk.exists

\* a Personnel with its two balance fields blanked
Identity(p) == [p EXCEPT !.saldoFerias = 0, !.saldoAbono = 0]

\* C9: the collections are append-only and their records immutable: a step
\* removes, reorders or changes no LeaveRecord and no Personnel, except the
\* balance fields of a Personnel, which change only in the logLeave step
\* that creates a FERIAS or ABONO record owned by that Personnel.
C9_AppendOnly ==
    [][LET P == PersonnelOf(1)
           L == LeavesOf(1)
           P2 == PersonnelOf(1)'
           L2 == LeavesOf(1)'
       IN  /\ Len(P2) >= Len(P)
           /\ Len(L2) >= Len(L)
           /\ \A k \in 1..Len(L) : L2[k] = L[k]
           /\ \A i \in 1..Len(P) :
                 /\ Identity(P2[i]) = Identity(P[i])
                 /\ P2[i] # P[i] =>
                       /\ last'.op = "logLeave" /\ last'.ok
                       /\ Len(L2) = Len(L) + 1
                       /\ L2[Len(L2)].type \in {FERIAS, ABONO}
                       /\ L2[Len(L2)].personnel_id = P[i].id]_vars

\* C9 witness: two Personnel and two leaves, the first Personnel's vacation
\* balance and the second's special-leave balance both reduced
C9_Witness ==
    /\ Len(PersonnelOf(1)) = 2 /\ Len(LeavesOf(1)) = 2
    /\ PersonnelOf(1)[1].saldoFerias < DefaultSaldoFerias
    /\ PersonnelOf(1)[1].saldoAbono = DefaultSaldoAbono
    /\ PersonnelOf(1)[2].saldoAbono < DefaultSaldoAbono
    /\ PersonnelOf(1)[2].saldoFerias = DefaultSaldoFerias

\* C10: when two sessions have loaded the same snapshot and each has then
\* made one valid registration, the two registrations carry the same
\* identifier, "P" followed by the snapshot's personnel count + 1.
C10_SameSnapshotSameIdentifier ==
    \A s, t \in Sessions :
        (/\ s # t /\ mem[s].loaded /\ mem[t].loaded
         /\ hist[s].base = hist[t].base
         /\ hist[s].regs = 1 /\ hist[t].regs = 1)
        => LET n == Len(hist[s].base.personnel)
           IN  /\ Len(PersonnelOf(s)) = n + 1
               /\ Len(PersonnelOf(t)) = n + 1
               /\ PersonnelOf(s)[n + 1].id = PrefixP \o Decimal(n + 1)
               /\ PersonnelOf(t)[n + 1].id = PrefixP \o Decimal(n + 1)

\* C10 witness: two sessions that loaded the same one-Personnel snapshot
\* have registered two different people under the same identifier
C10_Witness ==
    /\ mem[1].loaded /\ mem[2].loaded
    /\ hist[1].base = hist[2].base /\ hist[1].base.exists
    /\ Len(hist[1].base.personnel) = 1
    /\ hist[1].regs = 1 /\ hist[2].regs = 1
    /\ PersonnelOf(1)[2].id = PersonnelOf(2)[2].id
    /\ PersonnelOf(1)[2].nome # PersonnelOf(2)[2].nome

====
